---- MODULE Spec2Model ----
(***************************************************************************)
(* Model of Proof_of_Concept/tui.h: the TUI runtime's life cycle           *)
(* (tui_init / tui_deinit / tui_error), the two signal latches, the        *)
(* Z-order registry (raiseComponent), the dispatcher (handle_event), the   *)
(* hit test (inComponent) and the flush of the buffer (writescreen).       *)
(*                                                                         *)
(* The program state is gathered into one record g (operator G), the C     *)
(* functions are operators from records to records so that a function      *)
(* calling another is their composition, and every action scatters the     *)
(* resulting record back into the variables (operator Put).                *)
(***************************************************************************)
EXTENDS Integers, Sequences, FiniteSets, TLC

----------------------------------------------------------------------------
(* Bounds of the model *)

\* number of Component objects the application owns
NumComps == 3
\* mouse coordinates and other indeterminate 16-bit payloads are 0..MaxCoord
MaxCoord == 3
\* explicit tui_deinit() calls the application makes after one tui_init()
MaxCalls == 2

(* Program constants *)
MAX_COMPONENTS == 64
UINT16_MAX == 65535
\* unsigned short (the type of ws_row / ws_col) on the modelled platform
USHRT_MAX == 65535

NULL == 0
Comps == 1..NumComps
Coords == 0..MaxCoord

\* c_lflag bits of struct termios that matter here
ECHO == "ECHO"
ICANON == "ICANON"
ISIG == "ISIG"
\* the terminal mode the process is started with
CookedTio == {ECHO, ICANON, ISIG}

\* the sizes the real terminal can have (struct winsize)
TermSizes == {[ws_col |-> 4, ws_row |-> 3], [ws_col |-> 6, ws_row |-> 5]}

Signals == {"SIGINT", "SIGTERM", "SIGWINCH"}
SIG_DFL == "SIG_DFL"
DefaultHandlers == [s \in Signals |-> SIG_DFL]
\* the zero-initialised static _old_sig* pointers
NullHandlers == [s \in Signals |-> "NULL"]

\* EventKind
EventKinds == {"END", "RESIZE", "MOUSE", "KEY"}
NoEvent == [kind |-> "NONE", handled |-> FALSE, u0 |-> 0, u1 |-> 0]

----------------------------------------------------------------------------
(* The component tree the application builds.  Component c occupies the    *)
(* square with corner (c-1, c-1) and width = height = 2, so neighbours     *)
(* overlap; component 1 is the parent of all others.                       *)

pos(c) == [x |-> c - 1, y |-> c - 1, width |-> 2, height |-> 2]
parent(c) == IF c = 1 THEN NULL ELSE 1
\* onKeypress is optional: TRUE when the pointer is not NULL
onKeypress(c) == c # 2

\* int on the modelled platform (POSIX: at least 32 bits)
INT_MAX == 2147483647

\* a 16-bit sum that wraps around
Uint16Sum(a, b) == (a + b) % (UINT16_MAX + 1)

\* a + b for uint16_t a, b: both are promoted to int before the addition,
\* and only a sum beyond INT_MAX would leave the range of int
PromotedSum(a, b) ==
    LET sum == a + b
    IN  IF sum <= INT_MAX THEN sum ELSE (sum - INT_MAX) - INT_MAX - 2

\* the test of inComponent on the Position p
inBounds(p, x, y) ==
    (x >= p.x) /\ (x <= PromotedSum(p.x, p.width))
        /\ (y >= p.y) /\ (y <= PromotedSum(p.y, p.height))

inComponent(c, x, y) == inBounds(pos(c), x, y)

----------------------------------------------------------------------------
VARIABLES
    tui_active,      \* _tui_active
    old_tio,         \* _old_tio
    old_sig,         \* _old_sigint, _old_sigterm, _old_sigwinch
    ctx,             \* tui_globalcontext
    tio,             \* the terminal's mode (c_lflag), owned by the OS
    sig,             \* the process's signal dispositions
    term,            \* the real terminal's size
    winch_pending,   \* a SIGWINCH was generated and not yet delivered
    proc,            \* process status: running / exited / killed / crashed
    atexit_reg,      \* tui_deinit is registered with atexit
    op,              \* the last operation, what it saw on entry and left
    e,               \* the Event the last handle_event returned
    calls,           \* handler invocations of the last handle_event
    inited,          \* the last tui_init that was started ran to its end
    n_restore,       \* times the restore block of tui_deinit ran since tui_init
    n_deinit,        \* tui_deinit calls since tui_init
    clickless,       \* the components whose onClick pointer is NULL
    feat,            \* the terminal's switchable features, owned by the terminal
    written          \* the sequences written to the terminal since tui_init began

vars == <<tui_active, old_tio, old_sig, ctx, tio, sig, term, winch_pending,
          proc, atexit_reg, op, e, calls, inited, n_restore, n_deinit,
          clickless, feat, written>>

\* onClick is optional: TRUE when the pointer is not NULL
onClick(c) == c \notin clickless

G == [active |-> tui_active, old_tio |-> old_tio, old_sig |-> old_sig,
      ctx |-> ctx, tio |-> tio, sig |-> sig, proc |-> proc,
      atexit |-> atexit_reg, inited |-> inited, n_restore |-> n_restore,
      n_deinit |-> n_deinit, clickless |-> clickless,
      feat |-> feat, written |-> written]

Put(g) ==
    /\ tui_active' = g.active
    /\ old_tio' = g.old_tio
    /\ old_sig' = g.old_sig
    /\ ctx' = g.ctx
    /\ tio' = g.tio
    /\ sig' = g.sig
    /\ proc' = g.proc
    /\ atexit_reg' = g.atexit
    /\ inited' = g.inited
    /\ n_restore' = g.n_restore
    /\ n_deinit' = g.n_deinit
    /\ clickless' = g.clickless
    /\ feat' = g.feat
    /\ written' = g.written

Running(g) == g.proc = "running"

\* the screen pointer before any tmt_open: no buffer
NoScreen == [nline |-> 0, ncol |-> 0, dirty |-> {}]

\* GlobalContext as zero-initialised static storage
ZeroContext ==
    [screen |-> NoScreen, window_width |-> 0, window_height |-> 0,
     needs_resize |-> FALSE, exiting |-> FALSE,
     componentList |-> <<>>, rootComponent |-> NULL]

num_components == Len(ctx.componentList)

----------------------------------------------------------------------------
(* The terminal.  Control sequences are written as their bytes with ESC    *)
(* for the byte 0x1b and NUL for the terminating zero byte that            *)
(* write(1, s, sizeof(s)) sends along.                                     *)

init_term == <<"ESC?1049h", "ESC[2J", "ESC[H", "ESC[?25l", "ESC[?1000l", "NUL">>
restore_term ==
    <<"ESC[?1049h", "ESC[?1000l", "ESC[2J", "ESC[?25h", "ESC[?1049l", "NUL">>

\* the control operation a terminal performs for a sequence; bytes that form
\* no control sequence (ESC not followed by "[") perform none
Operation(seq) ==
    CASE seq = "ESC[?1049h" -> "enter_alt"
      [] seq = "ESC[?1049l" -> "exit_alt"
      [] seq = "ESC[2J"     -> "clear"
      [] seq = "ESC[H"      -> "home"
      [] seq = "ESC[?25l"   -> "hide_cursor"
      [] seq = "ESC[?25h"   -> "show_cursor"
      [] seq = "ESC[?1000h" -> "enable_mouse"
      [] seq = "ESC[?1000l" -> "disable_mouse"
      [] OTHER              -> "none"

\* a terminal as the process finds it: main buffer, cursor shown, no mouse
\* reporting
DefaultFeat == [alt |-> FALSE, cursor |-> TRUE, mouse |-> FALSE]

Perform(f, o) ==
    CASE o = "enter_alt"     -> [f EXCEPT !.alt = TRUE]
      [] o = "exit_alt"      -> [f EXCEPT !.alt = FALSE]
      [] o = "hide_cursor"   -> [f EXCEPT !.cursor = FALSE]
      [] o = "show_cursor"   -> [f EXCEPT !.cursor = TRUE]
      [] o = "enable_mouse"  -> [f EXCEPT !.mouse = TRUE]
      [] o = "disable_mouse" -> [f EXCEPT !.mouse = FALSE]
      [] OTHER               -> f

RECURSIVE Interpret(_, _)
Interpret(f, seqs) ==
    IF seqs = <<>> THEN f
    ELSE Interpret(Perform(f, Operation(Head(seqs))), Tail(seqs))

\* write(1, seqs, sizeof(seqs))
write(g, seqs) ==
    [g EXCEPT !.feat = Interpret(g.feat, seqs), !.written = g.written \o seqs]

----------------------------------------------------------------------------
(* tui_deinit, exit, tui_error, updateSize.  Of the locale (setlocale)     *)
(* only the two failures that end tui_init are kept.                       *)

\* a tui_deinit without the "already inactive" guard
tui_deinit_unguarded(g) ==
    write([g EXCEPT !.active = FALSE, !.sig = g.old_sig, !.tio = g.old_tio,
                    !.n_restore = g.n_restore + 1, !.n_deinit = g.n_deinit + 1],
          restore_term)

tui_deinit(g) ==
    IF ~g.active
    THEN [g EXCEPT !.n_deinit = g.n_deinit + 1]
    ELSE write([g EXCEPT !.active = FALSE,
                         !.sig = g.old_sig,
                         !.tio = g.old_tio,
                         !.n_restore = g.n_restore + 1,
                         !.n_deinit = g.n_deinit + 1],
               restore_term)

\* exit(code): runs the atexit handlers, then the process is gone
exit(g, code) ==
    LET g1 == IF g.atexit THEN tui_deinit(g) ELSE g
    IN  [g1 EXCEPT !.proc = IF code = 0 THEN "exited" ELSE "failed"]

tui_PANIC(g) == exit(g, 1)

tui_error(g) == tui_PANIC(tui_deinit(g))

\* ioctl(TIOCGWINSZ) answers ws; the range check is compiled in only where
\* unsigned short is wider than 16 bits
updateSize(g, ws) ==
    IF USHRT_MAX > UINT16_MAX /\ (ws.ws_row > UINT16_MAX \/ ws.ws_col > UINT16_MAX)
    THEN tui_PANIC(g)
    ELSE [g EXCEPT !.ctx.window_width = ws.ws_col % (UINT16_MAX + 1),
                   !.ctx.window_height = ws.ws_row % (UINT16_MAX + 1)]

----------------------------------------------------------------------------
(* tui_init *)

\* the virtual terminal buffer (libtmt) as tui.h reads it: its size and the
\* lines whose dirty flag is set.  A buffer just opened has never been
\* flushed: every line is dirty.
tmt_open(nline, ncol) == [nline |-> nline, ncol |-> ncol, dirty |-> 1..nline]

\* query_ok: setlocale(LC_CTYPE, NULL) answered; utf8_ok: one of the two
\* UTF-8 locales could be set
tui_init(g, ws, query_ok, utf8_ok) ==
    LET g0 == [g EXCEPT !.old_tio = g.tio,
                        !.tio = g.tio \ {ECHO, ICANON},
                        !.inited = FALSE, !.n_restore = 0, !.n_deinit = 0,
                        !.written = <<>>]
        g1 == write(g0, init_term)
        g2 == IF ~query_ok THEN tui_error(g1) ELSE g1
        g3 == IF Running(g2) /\ ~utf8_ok THEN tui_error(g2) ELSE g2
        g4 == [g3 EXCEPT !.ctx.exiting = FALSE,
                         !.ctx.needs_resize = FALSE,
                         !.ctx.rootComponent = NULL,
                         !.ctx.componentList = <<>>,
                         !.old_sig = g3.sig,
                         !.sig = [s \in Signals |->
                                    IF s = "SIGWINCH" THEN "sigwinch_handler"
                                    ELSE "sigint_sigterm_handler"]]
        g5 == updateSize(g4, ws)
        g6 == [g5 EXCEPT !.ctx.screen = tmt_open(g5.ctx.window_height,
                                                 g5.ctx.window_width),
                         !.active = TRUE, !.inited = TRUE]
    IN  IF ~Running(g3) THEN g3
        ELSE IF ~Running(g5) THEN g5
        ELSE g6

----------------------------------------------------------------------------
(* raiseComponent.  C index i is element i + 1 of the sequence. *)

RECURSIVE raiseLoop(_, _, _, _)
raiseLoop(components, i, tmp, c) ==
    IF i >= Len(components) THEN components
    ELSE LET despot == components[i + 1]
         IN  IF despot = c
             THEN [components EXCEPT ![i + 1] = tmp]
             ELSE raiseLoop([components EXCEPT ![i + 1] = tmp], i + 1, despot, c)

\* a raise that exchanges c with the component in front
raiseComponent_swap(components, c) ==
    IF Len(components) <= 1 \/ components[1] = c
         \/ \A i \in 1..Len(components) : components[i] # c
    THEN components
    ELSE LET k == CHOOSE i \in 1..Len(components) : components[i] = c
         IN  [components EXCEPT ![1] = c, ![k] = components[1]]

raiseComponent(components, c) ==
    IF Len(components) <= 1 THEN components
    ELSE IF components[1] = c THEN components
    ELSE raiseLoop([components EXCEPT ![1] = c], 1, components[1], c)

----------------------------------------------------------------------------
(* handle_event *)

\* one handler invocation: component, handler, returned value, arguments
Call(c, h, r, a) == [c |-> c, h |-> h, r |-> r, a |-> a]

\* the for loop of handle_event from C index i on; ev is the Event e, rets[c]
\* is what a handler of component c returns when it is invoked
RECURSIVE dispatchLoop(_, _, _, _, _)
dispatchLoop(components, i, ev, rets, log) ==
    IF i >= Len(components) THEN [e |-> ev, calls |-> log]
    ELSE LET c == components[i + 1]
         IN  IF ev.kind = "KEY"
             THEN IF onKeypress(c)
                  THEN IF rets[c]
                       THEN [e |-> [ev EXCEPT !.handled = TRUE],
                             calls |-> Append(log, Call(c, "onKeypress", TRUE, <<>>))]
                       ELSE dispatchLoop(components, i + 1,
                                [ev EXCEPT !.handled = FALSE], rets,
                                Append(log, Call(c, "onKeypress", FALSE, <<>>)))
                  ELSE dispatchLoop(components, i + 1, ev, rets, log)
             ELSE IF ev.kind = "MOUSE"
             THEN IF onClick(c) /\ inComponent(c, ev.u0, ev.u1)
                  THEN IF rets[c]
                       THEN [e |-> [ev EXCEPT !.handled = TRUE],
                             calls |-> Append(log,
                                 Call(c, "onClick", TRUE, <<ev.u0, ev.u1>>))]
                       ELSE dispatchLoop(components, i + 1,
                                [ev EXCEPT !.handled = FALSE], rets,
                                Append(log, Call(c, "onClick", FALSE, <<ev.u0, ev.u1>>)))
                  ELSE dispatchLoop(components, i + 1, ev, rets, log)
             ELSE dispatchLoop(components, i + 1, ev, rets, log)

\* which part of handle_event a call in state g runs
Branch(g) ==
    IF ~g.active \/ g.ctx.rootComponent # NULL THEN "fatal"
    ELSE IF g.ctx.exiting THEN "end"
    ELSE IF g.ctx.needs_resize THEN "resize"
    ELSE "input"

Result(g, ev, log) == [g |-> g, e |-> ev, calls |-> log]

\* a resize branch that queries the size before it clears the latch
resize_steps_swapped == <<"query", "clear">>

\* the statements of the resize branch before the root's resize, in program
\* order: _needs_resize = 0; updateSize();
resize_steps == <<"clear", "query">>

\* statement k of the resize branch; ws is what ioctl answers
resize_step(g, ws, k) ==
    IF resize_steps[k] = "clear"
    THEN [g EXCEPT !.ctx.needs_resize = FALSE]
    ELSE updateSize(g, ws)

\* the end of the resize branch: the root's resize, then return of the Event
resize_return(g, deref) ==
    LET root == g.ctx.rootComponent
        bounds == <<0, 0, g.ctx.window_width, g.ctx.window_height>>
    IN  IF ~Running(g) THEN Result(g, NoEvent, <<>>)
        ELSE IF root = NULL /\ deref = "crash"
        THEN Result([g EXCEPT !.proc = "crashed"], NoEvent, <<>>)
        ELSE Result(g,
                    [kind |-> "RESIZE", handled |-> TRUE,
                     u0 |-> g.ctx.window_width, u1 |-> g.ctx.window_height],
                    IF root = NULL THEN <<>>
                    ELSE <<Call(root, "resize", FALSE, bounds)>>)

\* ws: what ioctl answers; ev: the indeterminate content of the local Event e
\* (nothing assigns it before the loop reads it); rets: the handlers' answers;
\* deref: what dereferencing a NULL rootComponent does ("crash" or "continue")
handle_event(g, ws, ev, rets, deref) ==
    IF ~g.active THEN Result(tui_error(g), NoEvent, <<>>)
    ELSE IF g.ctx.rootComponent # NULL THEN Result(tui_error(g), NoEvent, <<>>)
    ELSE IF g.ctx.exiting
    THEN Result(tui_deinit(g), [ev EXCEPT !.kind = "END", !.handled = TRUE], <<>>)
    ELSE IF g.ctx.needs_resize
    THEN resize_return(resize_step(resize_step(g, ws, 1), ws, 2), deref)
    ELSE LET d == dispatchLoop(g.ctx.componentList, 0, ev, rets, <<>>)
         IN  Result(g, d.e, d.calls)

\* the tmt_write calls of one writescreen pass over the buffer scr: one for
\* every cell of every dirty line
Emitted(scr) == Cardinality(scr.dirty) * scr.ncol

\* writescreen: the dirty lines are walked and each cell is handed to
\* tmt_write on the same buffer, which can set dirty flags but not clear
\* them; nothing in the pass clears the flag of a visited line
writescreen(g) ==
    LET scr == g.ctx.screen
        visited == {l \in 1..scr.nline : l \in scr.dirty}
    IN  [g EXCEPT !.ctx.screen.dirty = @ \cup visited]

\* render_window: the root's render, then writescreen; deref is what
\* dereferencing a NULL rootComponent does
render_window(g, deref) ==
    IF g.ctx.rootComponent = NULL /\ deref = "crash"
    THEN [g EXCEPT !.proc = "crashed"]
    ELSE writescreen(g)

\* the indeterminate values the local Event e can hold on the path b; the
\* union's first two 16-bit words are u0, u1 (mouse_x, mouse_y of a MouseEvent)
Payloads(kind) ==
    IF kind = "MOUSE" THEN Coords \X Coords ELSE {<<0, 0>>, <<MaxCoord, MaxCoord>>}

Indeterminate(b) ==
    IF b = "input"
    THEN UNION {{[kind |-> k, handled |-> h, u0 |-> p[1], u1 |-> p[2]] :
                    h \in BOOLEAN, p \in Payloads(k)} : k \in EventKinds}
    ELSE IF b = "end"
    THEN {[kind |-> "END", handled |-> TRUE, u0 |-> p[1], u1 |-> p[2]] :
             p \in Payloads("END")}
    ELSE {NoEvent}

\* the components whose handler the loop can reach for ev
Reachable(components, b, ev) ==
    IF b # "input" THEN {}
    ELSE {components[i] : i \in {j \in 1..Len(components) :
            \/ ev.kind = "KEY" /\ onKeypress(components[j])
            \/ ev.kind = "MOUSE" /\ onClick(components[j])
                 /\ inComponent(components[j], ev.u0, ev.u1)}}

----------------------------------------------------------------------------
\* the state at program start, all but the application's choice of handlers
Start ==
    /\ tui_active = FALSE
    /\ old_tio = {}
    /\ old_sig = NullHandlers
    /\ ctx = ZeroContext
    /\ tio = CookedTio
    /\ sig = DefaultHandlers
    /\ term \in TermSizes
    /\ winch_pending = FALSE
    /\ proc = "running"
    /\ atexit_reg = FALSE
    /\ op = [name |-> "other"]
    /\ e = NoEvent
    /\ calls = <<>>
    /\ inited = FALSE
    /\ n_restore = 0
    /\ n_deinit = 0
    /\ feat = DefaultFeat
    /\ written = <<>>

\* the parent component takes no clicks, its children do
Init == Start /\ clickless = {1}

\* an application all of whose components take clicks
InitAllClick == Start /\ clickless = {}

\* example_main is at the top of its loop: no returned Event waits for the
\* END test and render_window, and handle_event is not inside its resize
\* branch
AtLoopTop == proc = "running" /\ op.name \notin {"handle_event", "resize"}

\* an operation that returns no Event and records nothing about its entry
Obs == /\ op' = [name |-> "other"]
       /\ e' = NoEvent
       /\ calls' = <<>>

\* the application starts the runtime (again, once it was shut down)
call_tui_init ==
    /\ AtLoopTop
    /\ ~tui_active
    /\ \E query_ok \in BOOLEAN, utf8_ok \in BOOLEAN :
          Put(tui_init(G, term, query_ok, utf8_ok))
    /\ Obs
    /\ UNCHANGED <<term, winch_pending>>

call_tui_deinit ==
    /\ AtLoopTop
    /\ n_deinit < MaxCalls
    /\ Put(tui_deinit(G))
    /\ Obs
    /\ UNCHANGED <<term, winch_pending>>

\* example_main: atexit(tui_deinit) right after tui_init
register_atexit ==
    /\ AtLoopTop
    /\ tui_active
    /\ ~atexit_reg
    /\ Put([G EXCEPT !.atexit = TRUE])
    /\ Obs
    /\ UNCHANGED <<term, winch_pending>>

\* the application builds its tree: a new component goes on top
add_component ==
    /\ AtLoopTop
    /\ tui_active
    /\ num_components < MAX_COMPONENTS
    /\ \E c \in Comps :
          /\ \A i \in 1..num_components : ctx.componentList[i] # c
          /\ Put([G EXCEPT !.ctx.componentList = Append(@, c)])
    /\ Obs
    /\ UNCHANGED <<term, winch_pending>>

\* the application assigns the root component (the one without a parent)
set_root ==
    /\ AtLoopTop
    /\ tui_active
    /\ ctx.rootComponent = NULL
    /\ \E c \in Comps :
          /\ parent(c) = NULL
          /\ Put([G EXCEPT !.ctx.rootComponent = c])
    /\ Obs
    /\ UNCHANGED <<term, winch_pending>>

call_raiseComponent ==
    /\ AtLoopTop
    /\ tui_active
    /\ \E c \in Comps :
          /\ Put([G EXCEPT !.ctx.componentList = raiseComponent(@, c)])
          /\ op' = [name |-> "raiseComponent", c |-> c,
                    before |-> ctx.componentList]
    /\ e' = NoEvent
    /\ calls' = <<>>
    /\ UNCHANGED <<term, winch_pending>>

\* a handle_event call that does not take the resize branch
call_handle_event ==
    /\ AtLoopTop
    /\ Branch(G) # "resize"
    /\ LET b == Branch(G)
       IN  \E ev \in Indeterminate(b) :
           \E rets \in [Reachable(ctx.componentList, b, ev) -> BOOLEAN] :
              LET r == handle_event(G, term, ev, rets, "none")
              IN  /\ Put(r.g)
                  /\ e' = r.e
                  /\ calls' = r.calls
                  /\ op' = [name |-> "handle_event", active |-> tui_active,
                            root |-> ctx.rootComponent, exiting |-> ctx.exiting,
                            needs_resize |-> ctx.needs_resize, ws |-> term,
                            latch |-> r.g.ctx.needs_resize]
    /\ UNCHANGED <<term, winch_pending>>

\* The resize branch of handle_event, statement by statement, so that the
\* signal handlers can run between any two of them.  op.pc counts the
\* statements of resize_steps already executed.

\* if (tui_globalcontext._needs_resize) was found true
resize_test ==
    /\ AtLoopTop
    /\ Branch(G) = "resize"
    /\ op' = [name |-> "resize", pc |-> 0, queried |-> FALSE,
              active |-> tui_active, root |-> ctx.rootComponent,
              exiting |-> ctx.exiting, needs_resize |-> ctx.needs_resize,
              ws |-> term]
    /\ e' = NoEvent
    /\ calls' = <<>>
    /\ Put(G)
    /\ UNCHANGED <<term, winch_pending>>

\* _needs_resize = 0; or updateSize();
resize_next ==
    /\ proc = "running"
    /\ op.name = "resize"
    /\ op.pc < Len(resize_steps)
    /\ Put(resize_step(G, term, op.pc + 1))
    /\ op' = [op EXCEPT !.pc = @ + 1,
                        !.queried = @ \/ resize_steps[op.pc + 1] = "query",
                        !.ws = IF resize_steps[op.pc + 1] = "query" THEN term ELSE @]
    /\ UNCHANGED <<e, calls, term, winch_pending>>

\* rootComponent->resize(...); return e;
resize_propagate ==
    /\ proc = "running"
    /\ op.name = "resize"
    /\ op.pc = Len(resize_steps)
    /\ \E deref \in {"crash", "continue"} :
          LET r == resize_return(G, deref)
          IN  /\ Put(r.g)
              /\ e' = r.e
              /\ calls' = r.calls
    /\ op' = [name |-> "handle_event", active |-> op.active, root |-> op.root,
              exiting |-> op.exiting, needs_resize |-> op.needs_resize,
              ws |-> op.ws, latch |-> ctx.needs_resize]
    /\ UNCHANGED <<term, winch_pending>>

\* the application flushes the buffer itself
call_writescreen ==
    /\ AtLoopTop
    /\ ctx.screen # NoScreen
    /\ Put(writescreen(G))
    /\ Obs
    /\ UNCHANGED <<term, winch_pending>>

\* example_main: if (e.kind == END) exit(0)
main_exit ==
    /\ proc = "running"
    /\ op.name = "handle_event"
    /\ e.kind = "END"
    /\ Put(exit(G, 0))
    /\ UNCHANGED <<op, e, calls, term, winch_pending>>

\* example_main: the Event was not END; render_window, next iteration
main_continue ==
    /\ proc = "running"
    /\ op.name = "handle_event"
    /\ e.kind # "END"
    /\ \E deref \in (IF ctx.rootComponent = NULL THEN {"crash", "continue"}
                     ELSE {"none"}) :
          Put(render_window(G, deref))
    /\ Obs
    /\ UNCHANGED <<term, winch_pending>>

\* the user resizes the terminal; the kernel generates SIGWINCH
term_resize ==
    /\ proc = "running"
    /\ \E ws \in TermSizes \ {term} : term' = ws
    /\ winch_pending' = TRUE
    /\ UNCHANGED <<op, e, calls>>
    /\ UNCHANGED <<tui_active, old_tio, old_sig, ctx, tio, sig, proc,
                   atexit_reg, inited, n_restore, n_deinit, clickless,
                   feat, written>>

\* SIGWINCH is delivered: sigwinch_handler runs, or the default (ignore)
deliver_sigwinch ==
    /\ proc = "running"
    /\ winch_pending
    /\ winch_pending' = FALSE
    /\ IF sig["SIGWINCH"] = "sigwinch_handler"
       THEN Put([G EXCEPT !.ctx.needs_resize = TRUE])
       ELSE Put(G)
    /\ UNCHANGED <<op, e, calls, term>>

\* SIGINT or SIGTERM is delivered: sigint_sigterm_handler runs, or the
\* default action ends the process
deliver_sigint_sigterm ==
    /\ proc = "running"
    /\ \E s \in {"SIGINT", "SIGTERM"} :
          IF sig[s] = "sigint_sigterm_handler"
          THEN Put([G EXCEPT !.ctx.exiting = TRUE])
          ELSE Put([G EXCEPT !.proc = "killed"])
    /\ UNCHANGED <<op, e, calls, term, winch_pending>>

Next ==
    \/ call_tui_init
    \/ call_tui_deinit
    \/ register_atexit
    \/ add_component
    \/ set_root
    \/ call_raiseComponent
    \/ call_handle_event
    \/ resize_test
    \/ resize_next
    \/ resize_propagate
    \/ call_writescreen
    \/ main_exit
    \/ main_continue
    \/ term_resize
    \/ deliver_sigwinch
    \/ deliver_sigint_sigterm

Spec == Init /\ [][Next]_vars

SpecAllClick == InitAllClick /\ [][Next]_vars

----------------------------------------------------------------------------
(* inComponent on Positions and points at both ends of the uint16_t range *)

Edge16 == {0, 1, UINT16_MAX - 1, UINT16_MAX}
Rects16 == [x : Edge16, y : Edge16, width : Edge16, height : Edge16]

call_inComponent ==
    /\ op.name = "other"
    /\ \E p \in Rects16, x \in Edge16, y \in Edge16 :
          op' = [name |-> "inComponent", p |-> p, x |-> x, y |-> y,
                 r |-> inBounds(p, x, y)]
    /\ UNCHANGED <<tui_active, old_tio, old_sig, ctx, tio, sig, term,
                   winch_pending, proc, atexit_reg, e, calls, inited,
                   n_restore, n_deinit, clickless, feat, written>>

SpecInComponent == Init /\ [][call_inComponent]_vars

----------------------------------------------------------------------------
(* Vocabulary of the properties *)

Range(q) == {q[i] : i \in 1..Len(q)}

Max(S) == CHOOSE m \in S : \A n \in S : n <= m

\* the last operation was a handle_event call (its Event is not yet consumed)
Returned == op.name = "handle_event"

\* the process was terminated by tui_error / tui_PANIC
Fatal == proc = "failed"

TuiHandlers == {"sigint_sigterm_handler", "sigwinch_handler"}

\* the member closest to the back of the registry whose bounds contain (x, y)
Topmost(components, x, y) ==
    LET hits == {i \in 1..Len(components) : inComponent(components[i], x, y)}
    IN  IF hits = {} THEN NULL ELSE components[Max(hits)]

\* c, its parent, its parent's parent, ... up to the root
RECURSIVE ParentChain(_)
ParentChain(c) == IF c = NULL THEN <<>> ELSE <<c>> \o ParentChain(parent(c))

RECURSIVE Reverse(_)
Reverse(q) == IF q = <<>> THEN <<>> ELSE Append(Reverse(Tail(q)), Head(q))

\* log invokes the handlers of the components of chain in order, stopping at
\* the first that reports handled or at the end of the chain
StopsAtFirstHandled(chain, log) ==
    /\ Len(log) <= Len(chain)
    /\ \A k \in 1..Len(log) : log[k].c = chain[k]
    /\ \A k \in 1..(Len(log) - 1) : ~log[k].r
    /\ Len(log) < Len(chain) => (Len(log) >= 1 /\ log[Len(log)].r)

----------------------------------------------------------------------------
(* C1: handle_event ends the process with a fatal error (after teardown)   *)
(* whenever the runtime is inactive or no root component is assigned, and  *)
(* when the runtime is active with a root assigned it does not take the    *)
(* fatal path and yields an event.                                         *)
C1_FatalExactlyWhenMisconfigured ==
    Returned =>
        /\ (~op.active \/ op.root = NULL) => (Fatal /\ ~tui_active)
        /\ (op.active /\ op.root # NULL) => (~Fatal /\ e.kind \in EventKinds)

(* C2: after raiseComponent(c) on a member c the registry holds the same   *)
(* components, each exactly once, and c is at the back (topmost slot).     *)
C2_RaiseKeepsMembersAndPutsAtBack ==
    (op.name = "raiseComponent" /\ op.c \in Range(op.before)) =>
        LET l == ctx.componentList
        IN  /\ Range(l) = Range(op.before)
            /\ Len(l) = Len(op.before)
            /\ \A i, j \in 1..Len(l) : l[i] = l[j] => i = j
            /\ l[Len(l)] = op.c

(* C3: for a Mouse event only the topmost component containing the        *)
(* pointer and then its ancestors, in parent order up to the first that    *)
(* reports handled, have their click handler invoked.                      *)
C3_ClickOnlyTopmostAndAncestors ==
    (Returned /\ e.kind = "MOUSE") =>
        StopsAtFirstHandled(
            SelectSeq(ParentChain(Topmost(ctx.componentList, e.u0, e.u1)), onClick),
            calls)

(* C4: for a Key event the keypress handlers are invoked from the topmost  *)
(* component (back of the registry) toward the front, skipping components  *)
(* without a handler, none after the first that reports handled; handled   *)
(* is true exactly when some handler reported handled.                     *)
C4_KeyTopmostFirst ==
    (Returned /\ e.kind = "KEY") =>
        /\ StopsAtFirstHandled(
               SelectSeq(Reverse(ctx.componentList), onKeypress), calls)
        /\ e.handled <=> (\E k \in 1..Len(calls) : calls[k].r)

\* the component a Mouse event at the point was delivered to first
Delivered == IF calls = <<>> THEN NULL ELSE calls[1].c

\* every member whose bounds contain the point can take a click
AllHitsClickable(x, y) ==
    \A c \in Range(ctx.componentList) : inComponent(c, x, y) => onClick(c)

(* C5: hit-testing a point returns the containing component closest to    *)
(* the back of the registry (the only containing one when there is just    *)
(* one), and none when no bounds contain the point.  Stated for points     *)
(* whose containing members all have a click handler, the members the      *)
(* loop tests.                                                             *)
C5_HitTestTopmost ==
    (Returned /\ e.kind = "MOUSE" /\ AllHitsClickable(e.u0, e.u1)) =>
        Delivered = Topmost(ctx.componentList, e.u0, e.u1)

(* C6: in every handle_event iteration the latches come before input: with *)
(* exiting set the iteration yields End; otherwise with needs_resize set   *)
(* it yields Resize; in both cases no click or keypress handler runs.      *)
C6_LatchesBeforeInput ==
    (Returned /\ op.active) =>
        /\ op.exiting => (e.kind = "END" /\ calls = <<>>)
        /\ (~op.exiting /\ op.needs_resize) =>
               /\ e.kind = "RESIZE"
               /\ \A k \in 1..Len(calls) : calls[k].h = "resize"

(* C7: once exiting is set the next handle_event iteration tears the       *)
(* terminal down and yields End, and after an End no other event is        *)
(* yielded and no handler is invoked.                                      *)
C7_ExitingYieldsTerminalEnd ==
    [][ /\ (tui_active /\ ctx.exiting /\ ~Returned /\ Returned') =>
               (e'.kind = "END" /\ ~tui_active' /\ tio' = old_tio' /\ sig' = old_sig')
        /\ (Returned /\ e.kind = "END") => (e' = e /\ calls' = <<>>) ]_vars

(* C8: with needs_resize set and exiting clear at the start of an          *)
(* iteration, the iteration yields one handled Resize event carrying the   *)
(* terminal size queried in it, the root's resize is invoked exactly once  *)
(* with (0, 0, width, height), and the latch is clear on return.           *)
C8_ResizeIteration ==
    (Returned /\ op.active /\ op.needs_resize /\ ~op.exiting) =>
        /\ e = [kind |-> "RESIZE", handled |-> TRUE,
                u0 |-> op.ws.ws_col, u1 |-> op.ws.ws_row]
        /\ op.root # NULL
        /\ calls = <<Call(op.root, "resize", FALSE,
                          <<0, 0, op.ws.ws_col, op.ws.ws_row>>)>>
        /\ ~op.latch

(* C9: tui_deinit is idempotent: after a completed tui_init, one or more   *)
(* tui_deinit calls (explicit, exit handler, tui_error, the exiting branch *)
(* of handle_event) leave the terminal mode and the three signal handlers  *)
(* at the values saved at init with the restore block run exactly once;    *)
(* calls made before any tui_init change nothing.                          *)
C9_TeardownExactlyOnce ==
    /\ (inited /\ n_deinit >= 1) =>
           /\ ~tui_active
           /\ n_restore = 1
           /\ tio = old_tio /\ tio = CookedTio
           /\ sig = old_sig /\ sig = DefaultHandlers
    /\ (inited /\ n_deinit = 0) => (tui_active /\ n_restore = 0)
    /\ old_tio = {} => (tio = CookedTio /\ sig = DefaultHandlers /\ n_restore = 0)

\* teardown was entered three times after one tui_init: the explicit call,
\* tui_error and the exit handler
C9_Witness ==
    /\ inited /\ n_deinit >= 3 /\ atexit_reg /\ Fatal
    /\ n_restore = 1

(* C10: every fatal error path tears down before terminating: when the     *)
(* process terminates the terminal mode is the one captured before raw     *)
(* mode was installed and no installed signal handler is left.             *)
C10_FatalPathsTearDown ==
    Fatal =>
        /\ tio = old_tio
        /\ \A s \in Signals : sig[s] \notin TuiHandlers

\* the component whose onClick a Mouse event at (x, y) reaches first when
\* every handler declines
FirstClick(components, x, y) ==
    LET d == dispatchLoop(components, 0,
                 [kind |-> "MOUSE", handled |-> FALSE, u0 |-> x, u1 |-> y],
                 [c \in Comps |-> FALSE], <<>>)
    IN  IF d.calls = <<>> THEN NULL ELSE d.calls[1].c

\* A, B and C are distinct members with a click handler whose bounds all
\* contain (x, y)
Overlapping3(A, B, C, x, y) ==
    /\ A # B /\ B # C /\ A # C
    /\ \A c \in {A, B, C} :
          c \in Range(ctx.componentList) /\ onClick(c) /\ inComponent(c, x, y)

\* the registry after raising A, then B, then C
RaisedABC(A, B, C) ==
    raiseComponent(raiseComponent(raiseComponent(ctx.componentList, A), B), C)

(* C11: with three mutually overlapping members A, B, C that each have a   *)
(* click handler, raised in the order A, B, C, a pointer event in the      *)
(* common overlap is delivered first to C; after raising A again, A is at  *)
(* the back of the registry and the same point is delivered first to A.    *)
C11_RaiseOrderDecidesDelivery ==
    tui_active =>
        \A A, B, C \in Comps, x, y \in Coords :
            Overlapping3(A, B, C, x, y) =>
                LET l1 == RaisedABC(A, B, C)
                    l2 == raiseComponent(l1, A)
                IN  /\ FirstClick(l1, x, y) = C
                    /\ l2[Len(l2)] = A
                    /\ FirstClick(l2, x, y) = A

(* C12: raiseComponent(c) leaves the registry unchanged when c is already  *)
(* the topmost component (at the back) or the registry has at most one     *)
(* member, and raising the same component a second time in a row changes   *)
(* nothing more than raising it once.                                      *)
C12_RaiseIdempotent ==
    op.name = "raiseComponent" =>
        LET l == ctx.componentList
            n == Len(op.before)
        IN  /\ (n <= 1 \/ op.before[n] = op.c) => l = op.before
            /\ raiseComponent(l, op.c) = l

\* q without the component c
Others(q, c) == SelectSeq(q, LAMBDA d : d # c)

(* C13: raiseComponent(c) on a member c keeps the relative order of all    *)
(* components other than c.                                                *)
C13_RaiseKeepsOrderOfOthers ==
    (op.name = "raiseComponent" /\ op.c \in Range(op.before)) =>
        Others(ctx.componentList, op.c) = Others(op.before, op.c)

\* the member at the last slot of a full registry was raised past the others
C13_Witness ==
    /\ op.name = "raiseComponent"
    /\ Len(op.before) = NumComps
    /\ op.before[NumComps] = op.c
    /\ ctx.componentList # op.before
    /\ Len(Others(ctx.componentList, op.c)) = NumComps - 1

(* C14: inComponent(rect, x, y) is true exactly when                       *)
(* rect.x <= x <= rect.x + rect.width and                                  *)
(* rect.y <= y <= rect.y + rect.height, the sums taken without             *)
(* wrap-around, also when rect.x + rect.width exceeds 65535.               *)
C14_InComponentNoWrap ==
    op.name = "inComponent" =>
        (op.r <=> /\ op.p.x <= op.x /\ op.x <= op.p.x + op.p.width
                  /\ op.p.y <= op.y /\ op.y <= op.p.y + op.p.height)

\* a point found inside a rectangle whose right edge lies beyond 65535
C14_Witness ==
    /\ op.name = "inComponent"
    /\ op.p.x + op.p.width > UINT16_MAX
    /\ op.x > op.p.x
    /\ op.r

\* no member of the registry has a keypress handler
NoKeypressHandler == \A c \in Range(ctx.componentList) : ~onKeypress(c)

(* C15: a handle_event iteration that yields a Key event while no member   *)
(* of the registry has a keypress handler returns handled = false, invokes *)
(* no handler and changes nothing: registry, root, latches, dimensions,    *)
(* screen, terminal mode and signal handlers are as before the call.       *)
C15_UnhandledKeyChangesNothing ==
    [][ (~Returned /\ Returned' /\ e'.kind = "KEY" /\ NoKeypressHandler) =>
            /\ ~e'.handled
            /\ calls' = <<>>
            /\ ctx' = ctx
            /\ tui_active' = tui_active /\ tio' = tio /\ sig' = sig ]_vars

\* a step in which a writescreen pass ran to its end
WritescreenPass ==
    \/ call_writescreen
    \/ main_continue /\ proc' = "running"

(* C16: after a full writescreen pass every line that was dirty when the   *)
(* pass started is marked clean, so a second pass with no render in        *)
(* between produces zero output.                                           *)
C16_PassCleansVisitedLines ==
    [][ WritescreenPass =>
            /\ ctx'.screen.dirty \cap ctx.screen.dirty = {}
            /\ Emitted(ctx'.screen) = 0 ]_vars

(* C17: in every reachable state in which the runtime is active the        *)
(* virtual terminal buffer has window_width columns and window_height      *)
(* lines, also after a Resize event.                                       *)
C17_ScreenMatchesWindow ==
    (tui_active /\ proc = "running") =>
        /\ ctx.screen.ncol = ctx.window_width
        /\ ctx.screen.nline = ctx.window_height

\* the control operations a terminal performs for the sequences of q
Operations(q) ==
    SelectSeq([i \in 1..Len(q) |-> Operation(q[i])], LAMBDA o : o # "none")

\* the operations of q that switch a feature
Switching(q) ==
    SelectSeq(q, LAMBDA o : o \notin {"clear", "home"})

\* the operation that undoes the switching operation o
Mirror(o) ==
    CASE o = "enter_alt"    -> "exit_alt"
      [] o = "hide_cursor"  -> "show_cursor"
      [] o = "enable_mouse" -> "disable_mouse"

StartupOps == <<"enter_alt", "clear", "home", "hide_cursor", "enable_mouse">>

\* the mirror of the switching startup operations, last switched first
TeardownOps ==
    LET r == Reverse(Switching(StartupOps))
    IN  [i \in 1..Len(r) |-> Mirror(r[i])]

(* C18: tui_init issues each startup control operation (enter alternate    *)
(* buffer, clear, home, hide cursor, enable mouse reporting) once, and     *)
(* tui_deinit issues the mirror of the switching ones in reverse order, so *)
(* that after init followed by deinit every terminal feature is back in    *)
(* its state from before init.                                             *)
C18_StartupMirroredAtTeardown ==
    /\ (inited /\ n_restore = 0) => Operations(written) = StartupOps
    /\ (inited /\ n_restore = 1) =>
           /\ Switching(Operations(written)) =
                  Switching(StartupOps) \o TeardownOps
           /\ feat = DefaultFeat

(* C19: raiseComponent(c) with a component c that is not a member of the   *)
(* registry leaves the registry unchanged.                                 *)
C19_RaiseNonMemberNoChange ==
    (op.name = "raiseComponent" /\ op.c \notin Range(op.before)) =>
        ctx.componentList = op.before

\* handle_event has cleared the latch and has not yet queried the size
BetweenClearAndQuery ==
    op.name = "resize" /\ ~op.queried /\ ~ctx.needs_resize

\* window_width x window_height is the real terminal's size
WindowIsTerminal ==
    ctx.window_width = term.ws_col /\ ctx.window_height = term.ws_row

====
